---- MODULE Spec2Model ----
(***************************************************************************)
(* Dinner-group membership of dinnernotonyourown: the Restaurant,         *)
(* DinnerGroup and Attendee tables and the route handlers that read and    *)
(* write them (dashboard action, attendees resource, dinner-groups         *)
(* resource, restaurants resource).                                        *)
(*                                                                         *)
(* Spec     : every request runs to completion before the next starts.     *)
(* SpecConc : two join requests, one per slot, interleave at the           *)
(*            granularity of their individual awaited database calls.      *)
(* SpecFirstJoin  : SpecConc over a database without any group.           *)
(* SpecIntegrity  : Spec and deleteRestaurant.                             *)
(* SpecSearch     : the restaurants loader and the upserts it issues.      *)
(* SpecJoinCard   : SpecSearch and a dashboard join.                       *)
(* SpecCards      : the loader and the dinner-groups 'get' over a          *)
(*                  populated database.                                    *)
(* SpecOptimistic : the dashboard's optimistic list against the loader.    *)
(* SpecCache      : the cached provider module behind the search and       *)
(*                  details resource; SpecCreate: its 'create' action.     *)
(***************************************************************************)
EXTENDS Integers, FiniteSets, Sequences, TLC

\* ------------------------------------------------------------------ bounds
MaxGroupIds == 2        \* DinnerGroup rows (ids) that can exist at once
MaxAttendeeIds == 2     \* Attendee rows (ids) that can exist at once

\* ------------------------------------------------------------- value sets
Users == {"u1", "u2"}
NoUser == "anon"                    \* a request without a resolved identity
PlaceIds == {"rA", "rB"}            \* provider place ids
TempId == "temp-id-0"               \* fallback id, never upserted
Missing == ""                       \* form field absent
NoGroup == 0
NoRow == 0
NoValue == -1                       \* optional provider number that is absent
DefaultPriceLevel == 2
DefaultRating == 30                 \* 3.0, ratings counted in tenths

GroupIds == 1..MaxGroupIds
AttendeeIds == 1..MaxAttendeeIds

NullGroup == [id |-> NoGroup, restaurantId |-> Missing]
NullAttendee == [id |-> NoRow, userId |-> NoUser, dinnerGroupId |-> NoGroup]

VARIABLES
  restaurants,     \* Restaurant table: set of [id, priceLevel, rating]
  dinnerGroups,    \* DinnerGroup table: set of [id, restaurantId]
  attendees,       \* Attendee table: set of [id, userId, dinnerGroupId]
  last,            \* the request that completed last (Spec): locals and response
  req,             \* requests in flight (SpecConc): per slot, position and locals
  upserts,         \* restaurant upserts issued without await and not yet run
  cache,           \* search cache: key -> [createdTime, value]
  now              \* Date.now(), in hours

vars == <<restaurants, dinnerGroups, attendees, last, req, upserts, cache, now>>

\* ------------------------------------------------------- schema and queries
\* Mutants: each changes one definition below the way a slip in the code would.
\* the lookup by restaurantId never finds the group
FindFirstGroup_Never(groups, r) == {NullGroup}

\* the lookup by userId never finds the row
FindFirstAttendee_Never(att, u) == {NullAttendee}

\* findFirst: any matching row, null when none matches.
FindFirstGroup(groups, r) ==
  LET m == {g \in groups : g.restaurantId = r}
  IN IF m = {} THEN {NullGroup} ELSE m

FindFirstAttendee(att, u) ==
  LET m == {a \in att : a.userId = u}
  IN IF m = {} THEN {NullAttendee} ELSE m

GroupExists(groups, gid) == \E g \in groups : g.id = gid

\* DinnerGroup_restaurantId_fkey
GroupCreateOk(rests, r) == \E x \in rests : x.id = r

RestaurantRow(id, priceLevel, rating) ==
  [id |-> id, priceLevel |-> priceLevel, rating |-> rating]

\* prisma.restaurant.upsert({ where: { id }, update, create })
\* an upsert that always inserts
RestaurantTableUpsert_Insert(rests, row) == rests \cup {row}

RestaurantTableUpsert(rests, row) == {x \in rests : x.id # row.id} \cup {row}

\* the unique index on (userId, dinnerGroupId) is missing
AttendeeCreateOk_NoUniqueIndex(att, groups, u, gid) == GroupExists(groups, gid)

\* Attendee_dinnerGroupId_fkey and Attendee_userId_dinnerGroupId_key
AttendeeCreateOk(att, groups, u, gid) ==
  /\ GroupExists(groups, gid)
  /\ ~ \E a \in att : a.userId = u /\ a.dinnerGroupId = gid

AttendeeUpdateOk(att, groups, id, gid) ==
  /\ \E a \in att : a.id = id
  /\ GroupExists(groups, gid)
  /\ ~ \E a \in att, b \in att :
        a.id = id /\ b.id # id /\ b.userId = a.userId /\ b.dinnerGroupId = gid

AttendeeDeleteOk(att, id) == \E a \in att : a.id = id

AttendeeCreate(att, id, u, gid) ==
  att \cup {[id |-> id, userId |-> u, dinnerGroupId |-> gid]}

\* the update re-points nothing
AttendeeUpdate_Unchanged(att, id, gid) == att

\* the update has lost its where clause and re-points every row
AttendeeUpdate_AllRows(att, id, gid) == {[a EXCEPT !.dinnerGroupId = gid] : a \in att}

AttendeeUpdate(att, id, gid) ==
  {IF a.id = id THEN [a EXCEPT !.dinnerGroupId = gid] ELSE a : a \in att}

\* the delete removes nothing
AttendeeDelete_Nothing(att, id) == att

AttendeeDelete(att, id) == {a \in att : a.id # id}

AttendeeDeleteMany_Nothing(att, u) == att

AttendeeDeleteMany(att, u) == {a \in att : a.userId # u}

\* ON DELETE CASCADE of Attendee_dinnerGroupId_fkey
CascadeGroup(att, gid) == {a \in att : a.dinnerGroupId # gid}

getAttendeesCount(gid) == Cardinality({a \in attendees : a.dinnerGroupId = gid})

RowsOf(u) == {a \in attendees : a.userId = u}
GroupsOf(r) == {g \in dinnerGroups : g.restaurantId = r}
GroupById(gid) == CHOOSE g \in dinnerGroups \cup {NullGroup} :
                    g.id = gid \/ (~GroupExists(dinnerGroups, gid) /\ g = NullGroup)

\* The current-group read (dashboard loader, getCurrentDinnerGroup): the
\* restaurant ids the read may return for u, Missing standing for null.
getCurrentDinnerGroup(u) ==
  {GroupById(a.dinnerGroupId).restaurantId : a \in FindFirstAttendee(attendees, u)}

\* Generated primary keys (TEXT PRIMARY KEY): an id no row carries and no
\* request in flight still holds; ids are opaque, so the least free one is taken.
HeldGroupIds == {req[s].dinnerGroupId : s \in DOMAIN req}
HeldAttendeeIds == {req[s].existing : s \in DOMAIN req}
FreeGroupIds == GroupIds \ ({g.id : g \in dinnerGroups} \cup HeldGroupIds)
FreeAttendeeIds(att) == AttendeeIds \ ({a.id : a \in att} \cup HeldAttendeeIds)
HasFreshGroupId == FreeGroupIds # {}
HasFreshAttendeeId(att) == FreeAttendeeIds(att) # {}
FreshGroupId == CHOOSE i \in FreeGroupIds : \A j \in FreeGroupIds : i <= j
FreshAttendeeId(att) ==
  CHOOSE i \in FreeAttendeeIds(att) : \A j \in FreeAttendeeIds(att) : i <= j

\* requireUserId: throws unless the request carries a resolved user.
requireUserId(u) == u # NoUser

\* What a completed request leaves to observe: its inputs, the restaurant of
\* the membership it found (Missing when none), its answer, and whether it
\* issued a DinnerGroup or Attendee query.
Response(op, u, r, prior, result, touched) ==
  [op |-> op, user |-> u, restaurantId |-> r, prior |-> prior,
   result |-> result, touched |-> touched]

PriorOf(ea) == GroupById(ea.dinnerGroupId).restaurantId

IdleReq == [pc |-> "idle", op |-> "none", user |-> NoUser, restaurantId |-> Missing,
            dinnerGroupId |-> NoGroup, existing |-> NoRow, result |-> "none"]
Slots == {1, 2}

TypeOK ==
  /\ \A x \in restaurants : x.priceLevel \in Nat /\ x.rating \in Nat
  /\ dinnerGroups \subseteq [id : GroupIds, restaurantId : PlaceIds]
  /\ attendees \subseteq [id : AttendeeIds, userId : Users, dinnerGroupId : GroupIds]

Init ==
  /\ restaurants = {}
  /\ dinnerGroups = {}
  /\ attendees = {}
  /\ last = Response("none", NoUser, Missing, Missing, "none", FALSE)
  /\ req = [s \in Slots |-> IdleReq]
  /\ upserts = {}
  /\ cache = <<>>
  /\ now = 0

\* ------------------------------------------------- requests, run atomically
Callers == Users \cup {NoUser}
\* Form values. requireUserId runs before the form is read, so the form of a
\* request without identity is never looked at: one value stands for all.
RestaurantArgs == PlaceIds \cup {TempId, Missing}
GroupArgs == GroupIds \cup {NoGroup}
RestaurantArgsOf(u) == IF u = NoUser THEN {Missing} ELSE RestaurantArgs
GroupArgsOf(u) == IF u = NoUser THEN {NoGroup} ELSE GroupArgs

\* restaurants resource loader: prisma.restaurant.upsert for an entry with a place id
RestaurantUpsert(r) ==
  /\ restaurants' = RestaurantTableUpsert(restaurants,
                         RestaurantRow(r, DefaultPriceLevel, DefaultRating))
  /\ last' = Response("search", NoUser, r, Missing, "true", FALSE)
  /\ UNCHANGED <<dinnerGroups, attendees, req, upserts, cache, now>>

\* the restaurant id is not validated
RestaurantIdValid_Always(r) == TRUE

\* if (!restaurantId || typeof restaurantId !== 'string'): the form value is
\* present and a string
RestaurantIdValid(r) == r # Missing

\* dashboard action, intent 'join-dinner'
DashboardJoinDinner(u, r) ==
  \E eg \in FindFirstGroup(dinnerGroups, r), ea \in FindFirstAttendee(attendees, u) :
    LET authed == requireUserId(u)
        valid == RestaurantIdValid(r)
        mustCreate == eg = NullGroup
        groupOk == mustCreate => GroupCreateOk(restaurants, r)
        gid == IF mustCreate THEN FreshGroupId ELSE eg.id
        groups2 == IF mustCreate
                   THEN dinnerGroups \cup {[id |-> gid, restaurantId |-> r]}
                   ELSE dinnerGroups
        writeOk == IF ea # NullAttendee
                   THEN AttendeeUpdateOk(attendees, groups2, ea.id, gid)
                   ELSE AttendeeCreateOk(attendees, groups2, u, gid)
        reached == authed /\ valid /\ groupOk
    IN
    /\ (reached /\ mustCreate) => HasFreshGroupId
    /\ (reached /\ ea = NullAttendee /\ writeOk) => HasFreshAttendeeId(attendees)
    /\ dinnerGroups' = IF reached THEN groups2 ELSE dinnerGroups
    /\ attendees' = IF ~(reached /\ writeOk) THEN attendees
                    ELSE IF ea # NullAttendee THEN AttendeeUpdate(attendees, ea.id, gid)
                    ELSE AttendeeCreate(attendees, FreshAttendeeId(attendees), u, gid)
    /\ last' = IF ~authed
                 THEN Response("join-dinner", u, Missing, Missing, "auth", FALSE)
               ELSE IF ~valid
                 THEN Response("join-dinner", u, r, Missing, "invalid", FALSE)
               ELSE IF ~groupOk
                 THEN Response("join-dinner", u, r, Missing, "error", TRUE)
               ELSE Response("join-dinner", u, r, PriorOf(ea),
                             IF writeOk THEN "true" ELSE "error", TRUE)
    /\ UNCHANGED <<restaurants, req, upserts, cache, now>>

\* dashboard action, intent 'leave-dinner'
DashboardLeaveDinner(u) ==
  \E ea \in FindFirstAttendee(attendees, u) :
    LET authed == requireUserId(u) IN
    /\ attendees' = IF authed THEN AttendeeDeleteMany(attendees, u) ELSE attendees
    /\ last' = IF authed
               THEN Response("leave-dinner", u, Missing, PriorOf(ea), "true", TRUE)
               ELSE Response("leave-dinner", u, Missing, Missing, "auth", FALSE)
    /\ UNCHANGED <<restaurants, dinnerGroups, req, upserts, cache, now>>

\* joinDinnerGroup keeps the existing row
joinDinnerGroupDelete_Skipped(att, ea) == att

\* joinDinnerGroup: the table after the delete of the existing row, if any
joinDinnerGroupDelete(att, ea) ==
  IF ea # NullAttendee THEN AttendeeDelete(att, ea.id) ELSE att

\* attendees resource action 'join' -> joinDinnerGroup(userId, dinnerGroupId)
AttendeesJoin(u, gid) ==
  \E ea \in FindFirstAttendee(attendees, u) :
    LET authed == requireUserId(u)
        valid == gid # NoGroup
        att1 == joinDinnerGroupDelete(attendees, ea)
        createOk == AttendeeCreateOk(att1, dinnerGroups, u, gid)
        reached == authed /\ valid
    IN
    /\ (reached /\ createOk) => HasFreshAttendeeId(att1)
    /\ attendees' = IF ~reached THEN attendees
                    ELSE IF createOk THEN AttendeeCreate(att1, FreshAttendeeId(att1), u, gid)
                    ELSE att1
    /\ last' = IF ~authed
                 THEN Response("join", u, Missing, Missing, "auth", FALSE)
               ELSE IF ~valid
                 THEN Response("join", u, Missing, Missing, "error", FALSE)
               ELSE Response("join", u, GroupById(gid).restaurantId, PriorOf(ea),
                             IF createOk THEN "true" ELSE "error", TRUE)
    /\ UNCHANGED <<restaurants, dinnerGroups, req, upserts, cache, now>>

\* leaveDinnerGroup answers with a row even when it found none
leaveDinnerGroupResult_Always(ea) == TRUE

\* leaveDinnerGroup: the row it returns (null when the user has none)
leaveDinnerGroupResult(ea) == ea # NullAttendee

\* attendees resource action 'leave' -> leaveDinnerGroup(userId)
AttendeesLeave(u) ==
  \E ea \in FindFirstAttendee(attendees, u) :
    LET authed == requireUserId(u) IN
    /\ attendees' = IF authed /\ ea # NullAttendee
                    THEN AttendeeDelete(attendees, ea.id) ELSE attendees
    /\ last' = IF authed
               THEN Response("leave", u, Missing, PriorOf(ea),
                             IF leaveDinnerGroupResult(ea) THEN "true" ELSE "false", TRUE)
               ELSE Response("leave", u, Missing, Missing, "auth", FALSE)
    /\ UNCHANGED <<restaurants, dinnerGroups, req, upserts, cache, now>>

\* attendees resource loader 'current' -> getCurrentDinnerGroup(userId)
AttendeesCurrent(u) ==
  \E r \in getCurrentDinnerGroup(u) :
    LET authed == requireUserId(u) IN
    /\ last' = IF authed
               THEN Response("current", u, r, r, "true", TRUE)
               ELSE Response("current", u, Missing, Missing, "auth", FALSE)
    /\ UNCHANGED <<restaurants, dinnerGroups, attendees, req, upserts, cache, now>>

\* dinner-groups resource action 'create' -> createDinnerGroup(restaurantId)
DinnerGroupsCreate(u, r) ==
  LET authed == requireUserId(u)
      valid == r # Missing
      ok == authed /\ valid /\ GroupCreateOk(restaurants, r)
  IN
  /\ ok => HasFreshGroupId
  /\ dinnerGroups' = IF ok THEN dinnerGroups \cup {[id |-> FreshGroupId, restaurantId |-> r]}
                     ELSE dinnerGroups
  /\ last' = IF ~authed THEN Response("dg-create", u, Missing, Missing, "auth", FALSE)
             ELSE IF ~valid THEN Response("dg-create", u, r, Missing, "error", FALSE)
             ELSE Response("dg-create", u, r, Missing, IF ok THEN "true" ELSE "error", TRUE)
  /\ UNCHANGED <<restaurants, attendees, req, upserts, cache, now>>

\* dinner-groups resource action 'delete' -> deleteDinnerGroup(id)
DinnerGroupsDelete(u, gid) ==
  LET authed == requireUserId(u)
      valid == gid # NoGroup
      ok == authed /\ valid /\ GroupExists(dinnerGroups, gid)
  IN
  /\ dinnerGroups' = IF ok THEN {g \in dinnerGroups : g.id # gid} ELSE dinnerGroups
  /\ attendees' = IF ok THEN CascadeGroup(attendees, gid) ELSE attendees
  /\ last' = IF ~authed THEN Response("dg-delete", u, Missing, Missing, "auth", FALSE)
             ELSE IF ~valid THEN Response("dg-delete", u, Missing, Missing, "error", FALSE)
             ELSE Response("dg-delete", u, GroupById(gid).restaurantId, Missing,
                           IF ok THEN "true" ELSE "error", TRUE)
  /\ UNCHANGED <<restaurants, req, upserts, cache, now>>

\* restaurants resource action 'join': dinnerGroup.upsert keyed by restaurantId.
\* restaurantId carries no unique index (only DinnerGroup_restaurantId_idx), so
\* the client may reject the where clause before any query runs; otherwise the
\* upsert finds the group of the restaurant or creates it. The handler never
\* resolves the caller.
RestaurantsJoin(u, r) ==
  \E executed \in BOOLEAN, eg \in FindFirstGroup(dinnerGroups, r) :
    LET valid == RestaurantIdValid(r)
        mustCreate == eg = NullGroup
        ok == valid /\ executed /\ (mustCreate => GroupCreateOk(restaurants, r))
    IN
    /\ (ok /\ mustCreate) => HasFreshGroupId
    /\ dinnerGroups' = IF ok /\ mustCreate
                       THEN dinnerGroups \cup {[id |-> FreshGroupId, restaurantId |-> r]}
                       ELSE dinnerGroups
    /\ last' = IF ~valid THEN Response("r-join", u, r, Missing, "invalid", FALSE)
               ELSE Response("r-join", u, r, Missing, IF ok THEN "true" ELSE "false",
                             executed)
    /\ UNCHANGED <<restaurants, attendees, req, upserts, cache, now>>

\* restaurants resource action 'leave': simulated, answers success
RestaurantsLeave(u, r) ==
  /\ last' = IF ~RestaurantIdValid(r) THEN Response("r-leave", u, r, Missing, "invalid", FALSE)
             ELSE Response("r-leave", u, r, Missing, "true", FALSE)
  /\ UNCHANGED <<restaurants, dinnerGroups, attendees, req, upserts, cache, now>>

\* dashboard action, an intent that is neither 'join-dinner' nor 'leave-dinner'
DashboardUnknownIntent(u) ==
  /\ last' = IF requireUserId(u)
             THEN Response("unknown-intent", u, Missing, Missing, "error", FALSE)
             ELSE Response("unknown-intent", u, Missing, Missing, "auth", FALSE)
  /\ UNCHANGED <<restaurants, dinnerGroups, attendees, req, upserts, cache, now>>

\* restaurants resource action, an action that is neither 'join' nor 'leave':
\* the restaurant id is checked first
RestaurantsUnknownAction(u, r) ==
  /\ last' = IF ~RestaurantIdValid(r)
             THEN Response("r-unknown", u, r, Missing, "invalid", FALSE)
             ELSE Response("r-unknown", u, r, Missing, "error", FALSE)
  /\ UNCHANGED <<restaurants, dinnerGroups, attendees, req, upserts, cache, now>>

Next ==
  \/ \E r \in PlaceIds : RestaurantUpsert(r)
  \/ \E u \in Callers : \E r \in RestaurantArgsOf(u) : DashboardJoinDinner(u, r)
  \/ \E u \in Callers : DashboardLeaveDinner(u)
  \/ \E u \in Callers : \E gid \in GroupArgsOf(u) : AttendeesJoin(u, gid)
  \/ \E u \in Callers : AttendeesLeave(u)
  \/ \E u \in Callers : AttendeesCurrent(u)
  \/ \E u \in Callers : \E r \in RestaurantArgsOf(u) : DinnerGroupsCreate(u, r)
  \/ \E u \in Callers : \E gid \in GroupArgsOf(u) : DinnerGroupsDelete(u, gid)
  \/ \E u \in {NoUser, "u1"}, r \in RestaurantArgs : RestaurantsJoin(u, r)
  \/ \E u \in {NoUser, "u1"}, r \in RestaurantArgs : RestaurantsLeave(u, r)
  \/ \E u \in Callers : DashboardUnknownIntent(u)
  \/ \E r \in {"rA", Missing} : RestaurantsUnknownAction(NoUser, r)

Spec == Init /\ [][Next]_vars

\* ------------------------------------------------ deleting a restaurant
\* the groups of a deleted restaurant stay
CascadeRestaurant_Keeps(groups, r) == groups

\* ON DELETE CASCADE of DinnerGroup_restaurantId_fkey
CascadeRestaurant(groups, r) == {g \in groups : g.restaurantId # r}

DeleteResponse(r, result, groups, rows) ==
  [op |-> "delete-restaurant", user |-> NoUser, restaurantId |-> r, prior |-> Missing,
   result |-> result, touched |-> TRUE, removedGroups |-> groups, removedRows |-> rows]

\* deleteRestaurant(id): prisma.restaurant.delete({ where: { id } }); the
\* delete of a row that does not exist throws
deleteRestaurant(r) ==
  LET ok == \E x \in restaurants : x.id = r
      groups2 == CascadeRestaurant(dinnerGroups, r)
      att2 == {a \in attendees : GroupExists(groups2, a.dinnerGroupId)}
  IN
  /\ restaurants' = IF ok THEN {x \in restaurants : x.id # r} ELSE restaurants
  /\ dinnerGroups' = IF ok THEN groups2 ELSE dinnerGroups
  /\ attendees' = IF ok THEN att2 ELSE attendees
  /\ last' = IF ok THEN DeleteResponse(r, "true", Cardinality(dinnerGroups \ groups2),
                                       Cardinality(attendees \ att2))
             ELSE DeleteResponse(r, "error", 0, 0)
  /\ UNCHANGED <<req, upserts, cache, now>>

NextIntegrity ==
  \/ Next
  \/ \E r \in PlaceIds : deleteRestaurant(r)

SpecIntegrity == Init /\ [][NextIntegrity]_vars

\* ------------------------------- join requests, one awaited call per step
Request(pc, op, u, r, gid, existing, result) ==
  [pc |-> pc, op |-> op, user |-> u, restaurantId |-> r, dinnerGroupId |-> gid,
   existing |-> existing, result |-> result]

Goto(s, pc) == [req EXCEPT ![s].pc = pc]
Done(s, result) == [req EXCEPT ![s].pc = "done", ![s].result = result]

\* dashboard 'join-dinner' enters the handler (identity resolved, form valid)
StartDashboardJoin(s, u, r) ==
  /\ req[s].pc = "idle"
  /\ req' = [req EXCEPT ![s] = Request("findGroup", "join-dinner", u, r, NoGroup, NoRow, "none")]
  /\ UNCHANGED <<restaurants, dinnerGroups, attendees, last, upserts, cache, now>>

\* attendees resource 'join' enters joinDinnerGroup(userId, dinnerGroupId)
StartAttendeesJoin(s, u, gid) ==
  /\ req[s].pc = "idle"
  /\ gid \notin HeldGroupIds \/ GroupExists(dinnerGroups, gid)
  /\ req' = [req EXCEPT ![s] = Request("findAttendee", "join", u, Missing, gid, NoRow, "none")]
  /\ UNCHANGED <<restaurants, dinnerGroups, attendees, last, upserts, cache, now>>

\* await prisma.dinnerGroup.findFirst({ where: { restaurantId } })
FindGroup(s) ==
  /\ req[s].pc = "findGroup"
  /\ \E eg \in FindFirstGroup(dinnerGroups, req[s].restaurantId) :
       req' = IF eg = NullGroup THEN Goto(s, "createGroup")
              ELSE [req EXCEPT ![s].pc = "findAttendee", ![s].dinnerGroupId = eg.id]
  /\ UNCHANGED <<restaurants, dinnerGroups, attendees, last, upserts, cache, now>>

\* await prisma.dinnerGroup.create({ data: { restaurantId, notes: '' } })
CreateGroup(s) ==
  LET ok == GroupCreateOk(restaurants, req[s].restaurantId) IN
  /\ req[s].pc = "createGroup"
  /\ ok => HasFreshGroupId
  /\ dinnerGroups' = IF ok THEN dinnerGroups \cup
                          {[id |-> FreshGroupId, restaurantId |-> req[s].restaurantId]}
                     ELSE dinnerGroups
  /\ req' = IF ok THEN [req EXCEPT ![s].pc = "findAttendee", ![s].dinnerGroupId = FreshGroupId]
            ELSE Done(s, "error")
  /\ UNCHANGED <<restaurants, attendees, last, upserts, cache, now>>

\* await prisma.attendee.findFirst({ where: { userId } })
FindAttendee(s) ==
  /\ req[s].pc = "findAttendee"
  /\ \E ea \in FindFirstAttendee(attendees, req[s].user) :
       req' = [req EXCEPT ![s].existing = ea.id,
                          ![s].pc = IF req[s].op = "join-dinner" THEN "write"
                                    ELSE IF ea # NullAttendee THEN "delete" ELSE "create"]
  /\ UNCHANGED <<restaurants, dinnerGroups, attendees, last, upserts, cache, now>>

\* dashboard: await prisma.attendee.update(...) or await prisma.attendee.create(...)
WriteAttendee(s) ==
  LET r == req[s]
      ok == IF r.existing # NoRow
            THEN AttendeeUpdateOk(attendees, dinnerGroups, r.existing, r.dinnerGroupId)
            ELSE AttendeeCreateOk(attendees, dinnerGroups, r.user, r.dinnerGroupId)
  IN
  /\ r.pc = "write"
  /\ (ok /\ r.existing = NoRow) => HasFreshAttendeeId(attendees)
  /\ attendees' = IF ~ok THEN attendees
                  ELSE IF r.existing # NoRow
                  THEN AttendeeUpdate(attendees, r.existing, r.dinnerGroupId)
                  ELSE AttendeeCreate(attendees, FreshAttendeeId(attendees), r.user,
                                      r.dinnerGroupId)
  /\ req' = Done(s, IF ok THEN "true" ELSE "error")
  /\ UNCHANGED <<restaurants, dinnerGroups, last, upserts, cache, now>>

\* joinDinnerGroup: await prisma.attendee.delete({ where: { id: existingAttendee.id } })
DeleteExisting(s) ==
  LET ok == AttendeeDeleteOk(attendees, req[s].existing) IN
  /\ req[s].pc = "delete"
  /\ attendees' = IF ok THEN AttendeeDelete(attendees, req[s].existing) ELSE attendees
  /\ req' = IF ok THEN Goto(s, "create") ELSE Done(s, "error")
  /\ UNCHANGED <<restaurants, dinnerGroups, last, upserts, cache, now>>

\* joinDinnerGroup: return prisma.attendee.create({ data: { userId, dinnerGroupId } })
CreateAttendee(s) ==
  LET r == req[s]
      ok == AttendeeCreateOk(attendees, dinnerGroups, r.user, r.dinnerGroupId)
  IN
  /\ r.pc = "create"
  /\ ok => HasFreshAttendeeId(attendees)
  /\ attendees' = IF ok THEN AttendeeCreate(attendees, FreshAttendeeId(attendees), r.user,
                                            r.dinnerGroupId)
                  ELSE attendees
  /\ req' = Done(s, IF ok THEN "true" ELSE "error")
  /\ UNCHANGED <<restaurants, dinnerGroups, last, upserts, cache, now>>

\* The interleaved requests start in a state sequential requests have left:
\* every provider place upserted, groups 1..k created in order, and each user
\* with at most one Attendee row (ids in user order, ids being opaque).
UserIndex(u) == IF u = "u1" THEN 1 ELSE 2

SeqGroupTables ==
  UNION {{ {[id |-> i, restaurantId |-> f[i]] : i \in 1..k} : f \in [1..k -> PlaceIds] }
           : k \in 0..MaxGroupIds}

SeqAttendeeTables(groups) ==
  { {[id |-> Cardinality({v \in Users : m[v] # NoGroup /\ UserIndex(v) <= UserIndex(u)}),
      userId |-> u, dinnerGroupId |-> m[u]] : u \in {v \in Users : m[v] # NoGroup}}
      : m \in {n \in [Users -> {g.id : g \in groups} \cup {NoGroup}] :
                 Cardinality({v \in Users : n[v] # NoGroup}) <= MaxAttendeeIds} }

InitConc ==
  /\ restaurants = {RestaurantRow(p, DefaultPriceLevel, DefaultRating) : p \in PlaceIds}
  /\ dinnerGroups \in SeqGroupTables
  /\ attendees \in SeqAttendeeTables(dinnerGroups)
  /\ last = Response("none", NoUser, Missing, Missing, "none", FALSE)
  /\ req = [s \in Slots |-> IdleReq]
  /\ upserts = {}
  /\ cache = <<>>
  /\ now = 0

NextConc ==
  \/ \E s \in Slots, u \in Users, r \in PlaceIds \cup {TempId} : StartDashboardJoin(s, u, r)
  \/ \E s \in Slots, u \in Users, gid \in GroupIds : StartAttendeesJoin(s, u, gid)
  \/ \E s \in Slots : FindGroup(s)
  \/ \E s \in Slots : CreateGroup(s)
  \/ \E s \in Slots : FindAttendee(s)
  \/ \E s \in Slots : WriteAttendee(s)
  \/ \E s \in Slots : DeleteExisting(s)
  \/ \E s \in Slots : CreateAttendee(s)

SpecConc == InitConc /\ [][NextConc]_vars

\* the interleaved joins over a database in which no restaurant has a group yet
InitFirstJoin ==
  /\ InitConc
  /\ dinnerGroups = {}

SpecFirstJoin == InitFirstJoin /\ [][NextConc]_vars

\* ------------------------------------- restaurants resource loader (search)
MaxResults == 2         \* entries in one provider result list

\* A provider entry: the fields the loader reads. place_id Missing, geometry
\* FALSE and a number NoValue stand for the field being absent.
Place(place_id, geometry, price_level, rating) ==
  [place_id |-> place_id, geometry |-> geometry, price_level |-> price_level,
   rating |-> rating]

ProviderPlaces ==
  { Place("rA", TRUE, 3, 45), Place("rA", TRUE, NoValue, NoValue),
    Place(Missing, TRUE, 1, NoValue), Place("rB", FALSE, 3, 45) }

ResultLists == UNION {[1..n -> ProviderPlaces] : n \in 0..MaxResults}

\* What the fetch of the provider can come to: a body with status OK or
\* ZERO_RESULTS, a body with another status, a non-OK HTTP status, a rejection.
ProviderFailures == {"REQUEST_DENIED", "http-error", "network-error"}
ProviderResponse(status, results) == [status |-> status, results |-> results]
ProviderResponses ==
  {ProviderResponse("OK", l) : l \in ResultLists}
    \cup {ProviderResponse(k, <<>>) : k \in ProviderFailures \cup {"ZERO_RESULTS"}}

\* searchRestaurants of the provider module the loader imports: one fetch, the
\* rating filter, and the empty list on any failure.
searchRestaurants(resp, minRating) ==
  LET Rated(place) == (IF place.rating = NoValue THEN 0 ELSE place.rating) >= minRating
  IN IF resp.status \in ProviderFailures THEN <<>>
     ELSE IF minRating # NoValue THEN SelectSeq(resp.results, Rated)
     ELSE resp.results

TempIdOf(index) == "temp-id-" \o ToString(index)

NullCard == [id |-> Missing]

\* a callback that keeps the entries without geometry
ProcessPlace_KeepsAll(place, index) ==
  [id |-> IF place.place_id # Missing THEN place.place_id ELSE TempIdOf(index),
   priceLevel |-> IF place.price_level # NoValue THEN place.price_level
                  ELSE DefaultPriceLevel,
   rating |-> IF place.rating # NoValue THEN place.rating ELSE DefaultRating]

\* the restaurant object built for one entry; null without geometry
ProcessPlace(place, index) ==
  IF ~place.geometry THEN NullCard
  ELSE [id |-> IF place.place_id # Missing THEN place.place_id ELSE TempIdOf(index),
        priceLevel |-> IF place.price_level # NoValue THEN place.price_level
                       ELSE DefaultPriceLevel,
        rating |-> IF place.rating # NoValue THEN place.rating ELSE DefaultRating]

\* the row handed to prisma.restaurant.upsert for one entry
UpsertData(place) ==
  RestaurantRow(place.place_id,
                IF place.price_level # NoValue THEN place.price_level ELSE DefaultPriceLevel,
                IF place.rating # NoValue THEN place.rating ELSE DefaultRating)

\* the upserts one search issues: entries with geometry and a place id
IssuedUpserts(results) ==
  {UpsertData(results[i]) : i \in {j \in 1..Len(results) :
      results[j].geometry /\ results[j].place_id # Missing}}

\* prisma.dinnerGroup.findMany({ include: { attendees: true } }): every group,
\* in an order the query does not fix.
GroupOrders(groups) ==
  {o \in [1..Cardinality(groups) -> groups] : \A i, j \in DOMAIN o : o[i] = o[j] => i = j}

NullInfo == [id |-> Missing, attendeeCount |-> 0, userIsAttending |-> FALSE,
             dinnerGroupId |-> NoGroup]

getRestaurantsWithAttendeeCount(order) ==
  [i \in DOMAIN order |->
     [id |-> order[i].restaurantId, attendeeCount |-> getAttendeesCount(order[i].id),
      userIsAttending |-> FALSE, dinnerGroupId |-> order[i].id]]

\* restaurantsWithAttendees.find(r => r.id === restaurant.id)
FindInfo(infos, id) ==
  LET hits == {i \in DOMAIN infos : infos[i].id = id}
  IN IF hits = {} THEN NullInfo
     ELSE infos[CHOOSE i \in hits : \A j \in hits : i <= j]

EnhanceCard(card, infos) ==
  LET info == FindInfo(infos, card.id)
  IN [id |-> card.id, priceLevel |-> card.priceLevel, rating |-> card.rating,
      attendeeCount |-> info.attendeeCount, userIsAttending |-> info.userIsAttending,
      dinnerGroupId |-> info.dinnerGroupId]

SearchResponse(u, resp, minRating, results, cards) ==
  [op |-> "restaurants", user |-> u, restaurantId |-> Missing, prior |-> Missing,
   result |-> "true", touched |-> TRUE, response |-> resp, minRating |-> minRating,
   results |-> results, cards |-> cards]

\* restaurants resource loader: search, build the cards, issue the upserts
\* (void, not awaited), add the attendee information. The handler resolves no
\* identity; u is the user the request comes from.
RestaurantsLoader(u, resp, minRating) ==
  \E order \in GroupOrders(dinnerGroups) :
    LET results == searchRestaurants(resp, minRating)
        restaurantsList == [i \in DOMAIN results |-> ProcessPlace(results[i], i - 1)]
        IsCard(c) == c # NullCard
        validRestaurants == SelectSeq(restaurantsList, IsCard)
        infos == getRestaurantsWithAttendeeCount(order)
        cards == [i \in DOMAIN validRestaurants |-> EnhanceCard(validRestaurants[i], infos)]
    IN
    /\ upserts' = upserts \cup IssuedUpserts(results)
    /\ last' = SearchResponse(u, resp, minRating, results, cards)
    /\ UNCHANGED <<restaurants, dinnerGroups, attendees, req, cache, now>>

\* an upsert issued by a search runs
RestaurantUpsertRuns(row) ==
  /\ row \in upserts
  /\ restaurants' = RestaurantTableUpsert(restaurants, row)
  /\ upserts' = upserts \ {row}
  /\ UNCHANGED <<dinnerGroups, attendees, last, req, cache, now>>

MinRatings == {NoValue, 40}

NextSearch ==
  \/ \E resp \in ProviderResponses, m \in MinRatings : RestaurantsLoader(NoUser, resp, m)
  \/ \E row \in upserts : RestaurantUpsertRuns(row)

SpecSearch == Init /\ [][NextSearch]_vars

\* searches, their upserts, and a user joining a restaurant of a returned card
NextJoinCard ==
  \/ NextSearch
  \/ DashboardJoinDinner("u1", "rA")

SpecJoinCard == Init /\ [][NextJoinCard]_vars

\* ------------------------------------------- reads over a populated database
\* try { ... } catch (error) { throw new Response(..., { status: 500 }) }:
\* whatever the block throws, a Response included, leaves as status 500.
CatchAll(status) == IF status # 200 THEN 500 ELSE status

GetResponse(u, gid, result, touched, status) ==
  [op |-> "dg-get", user |-> u, restaurantId |-> Missing, prior |-> Missing,
   result |-> result, touched |-> touched, dinnerGroupId |-> gid, status |-> status]

\* dinner-groups resource loader 'get' -> getDinnerGroupById(id)
DinnerGroupsGet(u, gid) ==
  LET authed == requireUserId(u)
      thrown == IF gid = NoGroup THEN 400
                ELSE IF ~GroupExists(dinnerGroups, gid) THEN 404
                ELSE 200
      status == CatchAll(thrown)
  IN
  /\ last' = IF ~authed THEN GetResponse(u, gid, "auth", FALSE, NoValue)
             ELSE GetResponse(u, gid, IF status = 200 THEN "true" ELSE "error",
                              gid # NoGroup, status)
  /\ UNCHANGED <<restaurants, dinnerGroups, attendees, req, upserts, cache, now>>

\* searches that return the persisted restaurants
CardPlaces == {Place(p, TRUE, NoValue, NoValue) : p \in PlaceIds}
CardResponses ==
  {ProviderResponse("OK", <<c>>) : c \in CardPlaces}
    \cup {ProviderResponse("OK", <<q[1], q[2]>>) :
             q \in {p \in CardPlaces \X CardPlaces : p[1] # p[2]}}

NextCards ==
  \/ \E u \in Users, resp \in CardResponses : RestaurantsLoader(u, resp, NoValue)
  \/ \E row \in upserts : RestaurantUpsertRuns(row)
  \/ \E u \in Callers : \E gid \in GroupArgsOf(u) : DinnerGroupsGet(u, gid)

SpecCards == InitConc /\ [][NextCards]_vars

\* ------------------------------------------- dashboard, optimistic card list
\* the card lists the loader can answer resp with over the current tables
LoaderCardLists(resp, minRating) ==
  {LET results == searchRestaurants(resp, minRating)
       restaurantsList == [i \in DOMAIN results |-> ProcessPlace(results[i], i - 1)]
       IsCard(c) == c # NullCard
       validRestaurants == SelectSeq(restaurantsList, IsCard)
       infos == getRestaurantsWithAttendeeCount(order)
   IN [i \in DOMAIN validRestaurants |-> EnhanceCard(validRestaurants[i], infos)]
     : order \in GroupOrders(dinnerGroups)}

\* restaurants.find(r => r.userIsAttending)?.id
AttendingRestaurantId(cards) ==
  LET hits == {i \in DOMAIN cards : cards[i].userIsAttending}
  IN IF hits = {} THEN Missing
     ELSE cards[CHOOSE i \in hits : \A j \in hits : i <= j].id

\* getOptimisticRestaurants: the list shown while dinnerFetcher.formData
\* carries the submitted intent
getOptimisticRestaurants(cards, intent, restaurantId) ==
  IF intent = "join-dinner"
  THEN [i \in DOMAIN cards |->
          [cards[i] EXCEPT !.userIsAttending = (cards[i].id = restaurantId),
                           !.attendeeCount = IF cards[i].id = restaurantId
                                             THEN cards[i].attendeeCount + 1
                                             ELSE cards[i].attendeeCount]]
  ELSE IF intent = "leave-dinner"
  THEN [i \in DOMAIN cards |->
          [cards[i] EXCEPT !.userIsAttending = FALSE,
                           !.attendeeCount =
                              IF cards[i].id = AttendingRestaurantId(cards)
                                   /\ cards[i].attendeeCount # 0
                              THEN cards[i].attendeeCount - 1
                              ELSE cards[i].attendeeCount]]
  ELSE cards

\* the list both restaurants are on
BothCards ==
  {ProviderResponse("OK", <<q[1], q[2]>>) :
     q \in {p \in CardPlaces \X CardPlaces : p[1] # p[2]}}

\* the dashboard of one user: the card list is fetched, a join or a leave is
\* submitted, the list is fetched again
NextOptimistic ==
  \/ \E resp \in BothCards : RestaurantsLoader("u1", resp, NoValue)
  \/ \E r \in PlaceIds : DashboardJoinDinner("u1", r)
  \/ DashboardLeaveDinner("u1")

SpecOptimistic == InitConc /\ [][NextOptimistic]_vars

\* --------------------- cached provider module; search/details/create resource
MaxCreated == 1         \* Restaurant rows the 'create' action can add

Times == {0, 1, 2, 25}              \* readings of Date.now(), in hours
SearchTtl == 1
DetailsTtl == 24

\* Query parameters after zod: a number NoValue or a string Missing is undefined.
Query(lat, lng, radius, type, keyword, minPrice, maxPrice, openNow) ==
  [lat |-> lat, lng |-> lng, radius |-> radius, type |-> type, keyword |-> keyword,
   minPrice |-> minPrice, maxPrice |-> maxPrice, openNow |-> openNow]

SearchQueries ==
  { Query(40, -111, NoValue, Missing, Missing, NoValue, NoValue, Missing),
    Query(40, -111, NoValue, "bar", "b-q", NoValue, NoValue, Missing),
    Query(40, -111, NoValue, "bar-b", "q", NoValue, NoValue, Missing) }

\* `${x}` of a number or of undefined
NumberText(n) == IF n = NoValue THEN "undefined" ELSE ToString(n)

\* searchRestaurants: parameter defaults, then the cache key template
searchKey(q) ==
  LET radius == IF q.radius = NoValue THEN 1500 ELSE q.radius
      type == IF q.type = Missing THEN "restaurant" ELSE q.type
      keyword == q.keyword
      openNow == IF q.openNow = Missing THEN "true" ELSE q.openNow
  IN "places-search:" \o ToString(q.lat) \o "-" \o ToString(q.lng) \o "-"
       \o ToString(radius) \o "-" \o type \o "-" \o keyword \o "-"
       \o NumberText(q.minPrice) \o "-" \o NumberText(q.maxPrice) \o "-" \o openNow

detailsKey(placeId) == "place-details:" \o placeId

SearchKeys == {searchKey(q) : q \in SearchQueries}

\* The cache collaborator (cache.server.ts): get(key) -> entry | absent and
\* set(key, entry), an entry no longer being served once its age exceeds the
\* time-to-live of its kind.
NoEntry == [metadata |-> [createdTime |-> NoValue], value |-> <<>>]
CacheEntry(t, value) == [metadata |-> [createdTime |-> t], value |-> value]
CacheTtl(key) == IF key \in SearchKeys THEN SearchTtl ELSE DetailsTtl

\* a cache that never drops an entry
CacheGet_NoExpiry(c, key, t) == IF key \in DOMAIN c THEN c[key] ELSE NoEntry

CacheGet(c, key, t) ==
  IF key \in DOMAIN c /\ t - c[key].metadata.createdTime <= CacheTtl(key)
  THEN c[key] ELSE NoEntry

\* the cached entry is never used
IsEntry_Never(e) == FALSE

\* if (cachedResults)
IsEntry(e) == e.metadata.createdTime # NoValue

\* an entry is stored under the key and is no longer served
Expired(c, key, t) == key \in DOMAIN c /\ ~IsEntry(CacheGet(c, key, t))

CacheSet(c, key, entry) ==
  [k \in DOMAIN c \cup {key} |-> IF k = key THEN entry ELSE c[k]]

\* googlePlacesResponseSchema.parse: every entry needs place_id and geometry
ParseOk(resp) ==
  \A i \in DOMAIN resp.results :
    resp.results[i].place_id # Missing /\ resp.results[i].geometry

FetchOk(resp) == resp.status \notin {"http-error", "network-error"}

SearchBodies ==
  { ProviderResponse("OK", <<Place("rA", TRUE, 3, 45)>>),
    ProviderResponse("OK", <<Place("rB", FALSE, 3, 45)>>),
    ProviderResponse("ZERO_RESULTS", <<>>),
    ProviderResponse("REQUEST_DENIED", <<>>),
    ProviderResponse("http-error", <<>>),
    ProviderResponse("network-error", <<>>) }

NoResponse == ProviderResponse("none", <<>>)

CachedSearchResponse(q, fetched, resp, result, status, list) ==
  [op |-> "r-search", user |-> NoUser, restaurantId |-> Missing, prior |-> Missing,
   result |-> result, touched |-> FALSE, query |-> q, key |-> searchKey(q),
   fetched |-> fetched, expired |-> Expired(cache, searchKey(q), now),
   response |-> resp, status |-> status, restaurants |-> list, time |-> now]

\* search/details/create resource, loader 'search' -> cached searchRestaurants
RestaurantsSearch(q, resp) ==
  LET key == searchKey(q)
      cachedResults == CacheGet(cache, key, now)
      fetched == ~IsEntry(cachedResults)
      ok == FetchOk(resp) /\ ParseOk(resp)
  IN
  /\ ~fetched => resp = NoResponse
  /\ fetched => resp # NoResponse
  /\ cache' = IF fetched /\ ok THEN CacheSet(cache, key, CacheEntry(now, resp.results))
              ELSE cache
  /\ last' = IF ~fetched
               THEN CachedSearchResponse(q, FALSE, resp, "true", 200, cachedResults.value)
             ELSE IF ok
               THEN CachedSearchResponse(q, TRUE, resp, "true", 200, resp.results)
             ELSE CachedSearchResponse(q, TRUE, resp, "error", 400, <<>>)
  /\ UNCHANGED <<restaurants, dinnerGroups, attendees, req, upserts, now>>

\* Place Details bodies: result is NoDetails when the body carries none.
NoDetails == Place(Missing, FALSE, NoValue, NoValue)
DetailsResponse(status, result) == [status |-> status, result |-> result]
DetailBodies ==
  { DetailsResponse("OK", Place("rA", TRUE, 3, 45)),
    DetailsResponse("OK", Place("rA", TRUE, NoValue, NoValue)),
    DetailsResponse("NOT_FOUND", NoDetails),
    DetailsResponse("http-error", NoDetails) }
NoDetailsResponse == DetailsResponse("none", NoDetails)
DetailArgs == {"rA", Missing}

\* getPlaceDetails(placeId) against response dresp: whether it fetches, whether
\* it throws, the value it returns and the cache it leaves.
getPlaceDetails(placeId, dresp) ==
  LET key == detailsKey(placeId)
      cachedDetails == CacheGet(cache, key, now)
      fetched == ~IsEntry(cachedDetails)
      ok == FetchOk(dresp)
  IN [fetched |-> fetched,
      thrown |-> fetched /\ ~ok,
      value |-> IF fetched THEN dresp.result ELSE cachedDetails.value,
      cache |-> IF fetched /\ ok THEN CacheSet(cache, key, CacheEntry(now, dresp.result))
                ELSE cache]

DetailsAnswer(op, placeId, d, dresp, result, status, row) ==
  [op |-> op, user |-> NoUser, restaurantId |-> placeId, prior |-> Missing,
   result |-> result, touched |-> FALSE, key |-> detailsKey(placeId),
   fetched |-> d.fetched, expired |-> Expired(cache, detailsKey(placeId), now),
   response |-> dresp, status |-> status, details |-> d.value, row |-> row,
   time |-> now]

NoLookup == [fetched |-> FALSE, thrown |-> FALSE, value |-> NoDetails, cache |-> cache]
NoRestaurant == RestaurantRow(Missing, NoValue, NoValue)

\* loader 'details' -> getPlaceDetails
RestaurantsDetails(placeId, dresp) ==
  LET valid == placeId # Missing
      d == IF valid THEN getPlaceDetails(placeId, dresp) ELSE NoLookup
  IN
  /\ d.fetched <=> dresp # NoDetailsResponse
  /\ cache' = d.cache
  /\ last' = IF valid /\ ~d.thrown
             THEN DetailsAnswer("r-details", placeId, d, dresp, "true", 200, NoRestaurant)
             ELSE DetailsAnswer("r-details", placeId, d, dresp, "error", 400, NoRestaurant)
  /\ UNCHANGED <<restaurants, dinnerGroups, attendees, req, upserts, now>>

CreatedIds == {"new-" \o ToString(i) : i \in 1..MaxCreated}
FreeRestaurantIds == CreatedIds \ {x.id : x \in restaurants}
FreshRestaurantId == CHOOSE i \in FreeRestaurantIds : TRUE

\* the data handed to createRestaurant: placeDetails.price_level || 1,
\* placeDetails.rating || 0
CreateData(id, placeDetails) ==
  RestaurantRow(id,
                IF placeDetails.price_level \in {NoValue, 0} THEN 1
                ELSE placeDetails.price_level,
                IF placeDetails.rating \in {NoValue, 0} THEN 0 ELSE placeDetails.rating)

\* action 'create' -> getPlaceDetails, createRestaurant
RestaurantsCreate(placeId, dresp) ==
  LET valid == placeId # Missing
      d == IF valid THEN getPlaceDetails(placeId, dresp) ELSE NoLookup
      built == valid /\ ~d.thrown /\ d.value # NoDetails /\ d.value.geometry
      row == IF built THEN CreateData(FreshRestaurantId, d.value) ELSE NoRestaurant
  IN
  /\ d.fetched <=> dresp # NoDetailsResponse
  /\ built => FreeRestaurantIds # {}
  /\ cache' = d.cache
  /\ restaurants' = IF built THEN restaurants \cup {row} ELSE restaurants
  /\ last' = IF built
             THEN DetailsAnswer("r-create", placeId, d, dresp, "true", 200, row)
             ELSE DetailsAnswer("r-create", placeId, d, dresp, "error", 500, row)
  /\ UNCHANGED <<dinnerGroups, attendees, req, upserts, now>>

\* time passes between requests
Tick(t) ==
  /\ t > now
  /\ now' = t
  /\ UNCHANGED <<restaurants, dinnerGroups, attendees, last, req, upserts, cache>>

NextCache ==
  \/ \E q \in SearchQueries, resp \in SearchBodies \cup {NoResponse} : RestaurantsSearch(q, resp)
  \/ \E p \in DetailArgs, dresp \in DetailBodies \cup {NoDetailsResponse} :
       RestaurantsDetails(p, dresp)
  \/ \E t \in Times : Tick(t)

SpecCache == Init /\ [][NextCache]_vars

NextCreate ==
  \/ \E p \in DetailArgs, dresp \in DetailBodies \cup {NoDetailsResponse} :
       RestaurantsCreate(p, dresp)
  \/ \E t \in Times : Tick(t)

SpecCreate == Init /\ [][NextCreate]_vars

\* ================================================================ claims
JoinOps == {"join-dinner", "join"}
LeaveOps == {"leave-dinner", "leave"}
GroupsIn(groups, r) == {g \in groups : g.restaurantId = r}
RowsIn(att, u) == {a \in att : a.userId = u}
CountIn(att, gid) == Cardinality({a \in att : a.dinnerGroupId = gid})
\* rows of u bound to a group of restaurant r
RowsAt(u, r) == {a \in RowsOf(u) : \E g \in GroupsOf(r) : g.id = a.dinnerGroupId}

\* C1: with requests run one after another, every user has at most one
\* Attendee row in every reachable state.
C1_AtMostOneAttendeeRow == \A u \in Users : Cardinality(RowsOf(u)) <= 1

\* a user who already had a membership has joined again and holds one row
C1_Witness ==
  /\ last.op \in JoinOps /\ last.result = "true" /\ last.prior # Missing
  /\ Cardinality(RowsOf(last.user)) = 1

\* C2: after a successful dashboard 'join-dinner' for (U, R), whatever U's
\* membership was before, the current-group read for U returns a group of R.
C2_JoinThenCurrentGroup ==
  (last.op = "join-dinner" /\ last.result = "true")
    => getCurrentDinnerGroup(last.user) = {last.restaurantId}

\* the join moved U from the group of another restaurant
C2_Witness ==
  /\ last.op = "join-dinner" /\ last.result = "true"
  /\ last.prior \notin {Missing, last.restaurantId}
  /\ getCurrentDinnerGroup(last.user) = {last.restaurantId}

\* C3: after join(U, R1) followed by join(U, R2) with R1 # R2, no Attendee row
\* binds U to a group of R1 and exactly one row binds U to a group of R2, which
\* the attendee count of that group includes.
C3_RejoinMovesMembership ==
  (last.op \in JoinOps /\ last.result = "true"
     /\ last.prior \notin {Missing, last.restaurantId})
    => /\ RowsAt(last.user, last.prior) = {}
       /\ Cardinality(RowsAt(last.user, last.restaurantId)) = 1
       /\ \A a \in RowsAt(last.user, last.restaurantId) :
            getAttendeesCount(a.dinnerGroupId) >= 1

\* U was in R1's group, joined R2, and R1's group is still there, not counting U
C3_Witness ==
  /\ last.op \in JoinOps /\ last.result = "true"
  /\ last.prior \notin {Missing, last.restaurantId}
  /\ GroupsOf(last.prior) # {}
  /\ \A g \in GroupsOf(last.prior) : getAttendeesCount(g.id) = 0
  /\ \E g \in GroupsOf(last.restaurantId) : getAttendeesCount(g.id) = 1

\* C4: a dashboard join to a restaurant without a DinnerGroup creates exactly
\* one group for it; a join to a restaurant that has a group creates no group
\* and attaches the user to a group the restaurant already had.
C4_JoinStep(u, r) ==
  (last' = Response("join-dinner", u, r, last'.prior, "true", TRUE) /\ vars' # vars)
    => /\ GroupsIn(dinnerGroups, r) = {}
            => /\ Cardinality(GroupsIn(dinnerGroups', r)) = 1
               /\ \A g \in dinnerGroups' \ dinnerGroups : g.restaurantId = r
               /\ dinnerGroups \subseteq dinnerGroups'
       /\ GroupsIn(dinnerGroups, r) # {}
            => /\ dinnerGroups' = dinnerGroups
               /\ \A a \in RowsIn(attendees', u) :
                    \E g \in GroupsIn(dinnerGroups, r) : g.id = a.dinnerGroupId

C4_LazyGroupCreatedOnce ==
  [][\A u \in Users, r \in PlaceIds : C4_JoinStep(u, r)]_vars

\* two users are attached to the one group of the restaurant just joined
C4_Witness ==
  /\ last.op = "join-dinner" /\ last.result = "true"
  /\ Cardinality(GroupsOf(last.restaurantId)) = 1
  /\ \A g \in GroupsOf(last.restaurantId) : getAttendeesCount(g.id) = 2

\* C5: a leave by a user who has a membership, through either leave entry
\* point, reports true/success, and afterwards the user has no Attendee row
\* and the current-group read returns null.
C5_LeaveRemovesMembership ==
  (last.op \in LeaveOps /\ last.prior # Missing)
    => /\ last.result = "true"
       /\ RowsOf(last.user) = {}
       /\ getCurrentDinnerGroup(last.user) = {Missing}

\* a member has left through leaveDinnerGroup while another user stays a member
C5_Witness ==
  /\ last.op = "leave" /\ last.prior # Missing /\ last.result = "true"
  /\ \E v \in Users \ {last.user} : RowsOf(v) # {}

\* C6 as stated: a leave by a user without membership reports false at every
\* leave entry point.
C6_LeaveWithoutMembershipReportsFalse ==
  (last.op \in LeaveOps /\ last.user \in Users /\ last.prior = Missing)
    => last.result = "false"

\* C6 as amended: a leave by a user without membership changes no Attendee or
\* DinnerGroup row and is no error; leaveDinnerGroup (attendees 'leave') reports
\* false, the dashboard 'leave-dinner' reports success; a leaveDinnerGroup
\* right after a leave by the same user reports false.
C6_LeaveStep(u) ==
  /\ (last'.op \in LeaveOps /\ last'.user = u /\ last'.prior = Missing)
       => /\ attendees' = attendees
          /\ dinnerGroups' = dinnerGroups
          /\ last'.op = "leave" => last'.result = "false"
          /\ last'.op = "leave-dinner" => last'.result = "true"
  /\ (last.op \in LeaveOps /\ last.user = u /\ last'.op = "leave" /\ last'.user = u)
       => last'.result = "false"

C6_LeaveWithoutMembershipIsNoOp == [][\A u \in Users : C6_LeaveStep(u)]_vars

\* leaveDinnerGroup has answered false to a user without membership
C6_Witness ==
  /\ last.op = "leave" /\ last.user \in Users /\ last.prior = Missing
  /\ last.result = "false"
  /\ attendees # {}

\* C7: a successful join by a user who is in the group of a different
\* restaurant raises the count of the target group by 1, lowers the count of
\* the prior group by 1, and changes no other group's count and no other
\* user's rows.
C7_JoinStep(u) ==
  (/\ last'.op \in JoinOps /\ last'.user = u /\ last'.result = "true"
   /\ last'.prior \notin {Missing, last'.restaurantId}
   /\ vars' # vars)
    => LET from == {a.dinnerGroupId : a \in RowsIn(attendees, u)}
           to == {a.dinnerGroupId : a \in RowsIn(attendees', u)}
       IN /\ Cardinality(from) = 1 /\ Cardinality(to) = 1 /\ from # to
          /\ \A g \in GroupIds :
               CountIn(attendees', g) - CountIn(attendees, g)
                 = (IF g \in to THEN 1 ELSE 0) - (IF g \in from THEN 1 ELSE 0)
          /\ \A v \in Users \ {u} : RowsIn(attendees', v) = RowsIn(attendees, v)

C7_JoinMovesOneCount == [][\A u \in Users : C7_JoinStep(u)]_vars

\* a member of one restaurant's group has joined another while a second user
\* is a member somewhere
C7_Witness ==
  /\ last.op \in JoinOps /\ last.result = "true"
  /\ last.prior \notin {Missing, last.restaurantId}
  /\ \E v \in Users \ {last.user} : RowsOf(v) # {}

\* C8: two join requests of one user, interleaved at their database calls, can
\* finish with the user holding two Attendee rows (or none). When both have
\* finished: two rows arise only from two successful requests and sit in
\* different groups; no row only when a request ended in error.
BothJoinsDone(u) == \A s \in Slots : req[s].pc = "done" /\ req[s].user = u

C8_InterleavedJoinOutcomes ==
  \A u \in Users :
    BothJoinsDone(u) =>
      /\ Cardinality(RowsOf(u)) <= 2
      /\ Cardinality(RowsOf(u)) = 2
           => /\ \A s \in Slots : req[s].result = "true"
              /\ Cardinality({a.dinnerGroupId : a \in RowsOf(u)}) = 2
      /\ Cardinality(RowsOf(u)) = 0 => \E s \in Slots : req[s].result = "error"

\* both requests of one user have finished and the user holds two rows
C8_Witness == \E u \in Users : BothJoinsDone(u) /\ Cardinality(RowsOf(u)) = 2

\* C9: when joinDinnerGroup's insert fails after the prior row was deleted, the
\* request ends in error and the user is left with no membership.
C9_FailedInsertLosesMembership ==
  (last.op = "join" /\ last.result = "error" /\ last.touched)
    => /\ RowsOf(last.user) = {}
       /\ last.restaurantId = Missing

\* a member named a group that does not exist and lost the membership
C9_Witness ==
  /\ last.op = "join" /\ last.result = "error" /\ last.prior # Missing
  /\ RowsOf(last.user) = {}

\* C10: a join, leave or membership read of a request without a resolved user
\* fails at the identity check, before any DinnerGroup or Attendee query.
MembershipOps == JoinOps \cup LeaveOps \cup {"current", "r-join", "r-leave"}

C10_NoIdentityNoAccess ==
  (last.op \in MembershipOps /\ last.user = NoUser)
    => (last.result = "auth" /\ ~last.touched)

\* C11: an Attendee row of user U is created, re-pointed or deleted only by a
\* request made as U: a step that changes the set of U's rows is a request of U.
C11_OnlyOwnerChangesRows ==
  [][\A u \in Users :
       RowsIn(attendees', u) # RowsIn(attendees, u) => last'.user = u]_vars

\* Attendee rows whose DinnerGroup belongs to restaurant r
RowsAtRestaurant(r) ==
  {a \in attendees : \E g \in GroupsOf(r) : g.id = a.dinnerGroupId}

\* C12: every card the restaurants loader returns carries as attendeeCount the
\* number of Attendee rows whose DinnerGroup belongs to the card's restaurant
\* (0 when the restaurant has no group).
C12_CardCountsRestaurantAttendees ==
  last.op = "restaurants" =>
    \A i \in DOMAIN last.cards :
      last.cards[i].attendeeCount = Cardinality(RowsAtRestaurant(last.cards[i].id))

\* C13: every card returned to user U has userIsAttending true exactly when U
\* has an Attendee row in a DinnerGroup of the card's restaurant.
C13_CardMarksRequestingUser ==
  last.op = "restaurants" =>
    \A i \in DOMAIN last.cards :
      last.cards[i].userIsAttending
        <=> (\E a \in RowsAtRestaurant(last.cards[i].id) : a.userId = last.user)

\* C20: a dinner-groups 'get' for an id that names no group is answered with
\* status 404, and a 'get' without an id with status 400.
C20_GetReportsNotFoundDistinctly ==
  (last.op = "dg-get" /\ last.result # "auth") =>
    /\ last.dinnerGroupId = NoGroup => last.status = 400
    /\ (last.dinnerGroupId # NoGroup /\ ~GroupExists(dinnerGroups, last.dinnerGroupId))
         => last.status = 404
\* the entries of a result list that carry geometry, by position
KeptIndexes(results) == {i \in DOMAIN results : results[i].geometry}

\* card c is the restaurant of the entry at position i (index i - 1)
CardOfEntry(c, place, i) ==
  /\ c.id = (IF place.place_id # Missing THEN place.place_id ELSE TempIdOf(i - 1))
  /\ c.priceLevel = (IF place.price_level # NoValue THEN place.price_level ELSE 2)
  /\ c.rating = (IF place.rating # NoValue THEN place.rating ELSE 30)

\* C14: the list the restaurants loader returns is the list searchRestaurants
\* gave it without the entries lacking geometry: as many cards as entries with
\* geometry, and the k-th entry with geometry is the k-th card.
C14_LoaderKeepsGeometryInOrder ==
  last.op = "restaurants" =>
    LET kept == KeptIndexes(last.results)
    IN /\ Len(last.cards) = Cardinality(kept)
       /\ \A i \in kept :
            CardOfEntry(last.cards[Cardinality({j \in kept : j <= i})],
                        last.results[i], i)

C14_Witness ==
  /\ last.op = "restaurants"
  /\ Len(last.results) = 2
  /\ ~last.results[1].geometry
  /\ last.results[2].geometry
  /\ Len(last.cards) = 1

TempIds == {TempIdOf(i) : i \in 0..MaxResults}

\* C15: a returned entry without place id carries the id temp-id-<index> and
\* no Restaurant row, written or issued, has a missing or temporary id; a
\* returned entry with a place id has its upsert issued or written under that
\* id; the Restaurant table never holds two rows with one id.
C15_TempIdsNotPersistedIdsUnique ==
  /\ \A x \in restaurants \cup upserts : x.id # Missing /\ x.id \notin TempIds
  /\ \A x, y \in restaurants : x.id = y.id => x = y
  /\ last.op = "restaurants" =>
       \A i \in KeptIndexes(last.results) :
         LET place == last.results[i]
             k == Cardinality({j \in KeptIndexes(last.results) : j <= i})
         IN IF place.place_id = Missing
            THEN last.cards[k].id = TempIdOf(i - 1)
            ELSE /\ last.cards[k].id = place.place_id
                 /\ \E x \in restaurants \cup upserts : x.id = place.place_id

C15_Witness ==
  /\ last.op = "restaurants"
  /\ \E k \in DOMAIN last.cards : last.cards[k].id = TempIdOf(1)
  /\ \E x \in restaurants, y \in upserts : x.id = y.id /\ x # y

\* C16: a Restaurant row built from provider data carries the provider's price
\* level and rating, 2 where the price level is absent and 3.0 (30 tenths)
\* where the rating is absent; here for the row the 'create' action writes.
C16_ProviderRecordsDefaulted ==
  last.op = "r-create" /\ last.result = "true" =>
    /\ last.row \in restaurants
    /\ last.row.priceLevel =
         (IF last.details.price_level = NoValue THEN 2 ELSE last.details.price_level)
    /\ last.row.rating =
         (IF last.details.rating = NoValue THEN 30 ELSE last.details.rating)

\* C17: a place search whose provider call fails (rejection, non-OK HTTP
\* status, provider status other than OK/ZERO_RESULTS) answers with an empty
\* restaurant list and no error.
C17_FailedSearchGivesEmptyList ==
  last.op = "r-search" /\ last.fetched /\ last.response.status \in ProviderFailures =>
    last.result = "true" /\ last.restaurants = <<>>

C21_InvalidRequestsChangeNothing ==
  [][ LET noId == last'.op \in {"join-dinner", "r-join"} /\ last'.restaurantId = Missing
          unknown == last'.op \in {"unknown-intent", "r-unknown"}
      IN /\ (noId /\ (last'.op = "join-dinner" => last'.user # NoUser))
              => last'.result = "invalid"
         /\ unknown => last'.result \in {"error", "invalid", "auth"}
         /\ (last'.op = "unknown-intent" /\ last'.user # NoUser) => last'.result = "error"
         /\ (noId \/ unknown) => UNCHANGED <<restaurants, dinnerGroups, attendees>> ]_vars

C21_Witness ==
  /\ last.op = "join-dinner"
  /\ last.user \in Users
  /\ last.restaurantId = Missing
  /\ last.result = "invalid"
  /\ dinnerGroups # {}
  /\ attendees # {}

\* C22: every restaurant has at most one DinnerGroup row.
C22_OneGroupPerRestaurant ==
  \A r \in PlaceIds : Cardinality(GroupsOf(r)) <= 1

\* every Attendee row references a DinnerGroup row and every DinnerGroup row
\* references a Restaurant row
ReferencesHold(rests, groups, att) ==
  /\ \A a \in att : \E g \in groups : g.id = a.dinnerGroupId
  /\ \A g \in groups : \E x \in rests : x.id = g.restaurantId

\* C23: after every step the references hold; a deleted restaurant leaves no
\* group of its own and no Attendee row of such a group, and takes nothing
\* else with it; a join naming a restaurant id without Restaurant row creates
\* no DinnerGroup and no Attendee row.
C23_ReferentialIntegrity ==
  [][ /\ ReferencesHold(restaurants', dinnerGroups', attendees')
      /\ (last'.op = "delete-restaurant" /\ last'.result = "true") =>
           /\ dinnerGroups' = {g \in dinnerGroups : g.restaurantId # last'.restaurantId}
           /\ attendees' = {a \in attendees : \E g \in dinnerGroups' : g.id = a.dinnerGroupId}
           /\ \A x \in restaurants' : x.id # last'.restaurantId
      /\ (last'.op \in {"join-dinner", "r-join"}
            /\ ~ \E x \in restaurants : x.id = last'.restaurantId) =>
           /\ dinnerGroups' = dinnerGroups
           /\ attendees' = attendees ]_vars

C23_Witness ==
  /\ last.op = "delete-restaurant"
  /\ last.result = "true"
  /\ last.removedGroups > 0
  /\ last.removedRows > 0
  /\ attendees # {}

\* the row other than row id that binds user u to group gid, if any
PairRows(att, u, gid, id) ==
  {a \in att : a.userId = u /\ a.dinnerGroupId = gid /\ a.id # id}

\* C24: no two Attendee rows carry the same (userId, dinnerGroupId), also
\* while joins interleave; a join whose insert (or re-pointing update) would
\* make a second row for its pair ends in an error and leaves the table as
\* it was, the existing row included.
C24_UserGroupPairUnique ==
  [][ /\ \A a, b \in attendees' :
           (a.userId = b.userId /\ a.dinnerGroupId = b.dinnerGroupId) => a = b
      /\ \A s \in Slots :
           (req[s].pc \in {"create", "write"} /\ req'[s].pc = "done"
              /\ PairRows(attendees, req[s].user, req[s].dinnerGroupId, req[s].existing) # {})
           => /\ req'[s].result = "error"
              /\ attendees' = attendees ]_vars

C24_Witness ==
  \E s, t \in Slots :
    /\ s # t
    /\ req[s].pc = "done" /\ req[t].pc = "done"
    /\ req[s].user = req[t].user
    /\ req[s].dinnerGroupId = req[t].dinnerGroupId
    /\ req[s].result = "error" /\ req[t].result = "true"
    /\ req[s].existing = NoRow
    /\ Cardinality(PairRows(attendees, req[s].user, req[s].dinnerGroupId, NoRow)) = 1

\* C25: a join or a leave removes no DinnerGroup row and changes none; a join
\* to a restaurant that has a group creates no group, and when it succeeds the
\* user's row is bound to a group the restaurant already had.
C25_JoinLeaveKeepGroups ==
  [][ last'.op \in JoinOps \cup LeaveOps \cup {"r-join", "r-leave"} =>
        /\ dinnerGroups \subseteq dinnerGroups'
        /\ (last'.op \in {"join-dinner", "r-join"}
              /\ GroupsIn(dinnerGroups, last'.restaurantId) # {})
           => dinnerGroups' = dinnerGroups
        /\ (last'.op = "join-dinner" /\ last'.result = "true"
              /\ GroupsIn(dinnerGroups, last'.restaurantId) # {})
           => \A a \in RowsIn(attendees', last'.user) :
                \E g \in GroupsIn(dinnerGroups, last'.restaurantId) :
                  g.id = a.dinnerGroupId ]_vars

\* a leave has emptied a group, which is still there
C25_Witness ==
  /\ last.op \in LeaveOps
  /\ last.result = "true"
  /\ last.prior # Missing
  /\ \E g \in GroupsOf(last.prior) : CountIn(attendees, g.id) = 0
  /\ attendees # {}

\* both slots hold finished dashboard joins to restaurant r by different users
C26_BothJoined(r) ==
  /\ \A s \in Slots : /\ req[s].pc = "done"
                      /\ req[s].op = "join-dinner"
                      /\ req[s].restaurantId = r
  /\ req[1].user # req[2].user

C26_OneSharedGroup(r) ==
  /\ Cardinality(GroupsOf(r)) = 1
  /\ \A s \in Slots : RowsAt(req[s].user, r) # {}

\* C26: when two dashboard joins by different users to a restaurant that had
\* no group, interleaved in any way, have both finished, the restaurant has
\* exactly one DinnerGroup and both users are attendees of it.
C26_ConcurrentFirstJoinsShareGroup ==
  \A r \in PlaceIds : C26_BothJoined(r) => C26_OneSharedGroup(r)

\* the groups the rows of user u are bound to
GroupsJoined(att, u) == {a.dinnerGroupId : a \in RowsIn(att, u)}

\* C27: a join of a user to the restaurant whose group the user is already in
\* succeeds and leaves the user with exactly one Attendee row, bound to the
\* same group, and every group with the attendee count it had.
C27_RejoinIsIdempotent ==
  [][ (last'.op \in JoinOps /\ last'.restaurantId # Missing
         /\ last'.prior = last'.restaurantId) =>
        /\ last'.result = "true"
        /\ Cardinality(RowsIn(attendees', last'.user)) = 1
        /\ GroupsJoined(attendees', last'.user) = GroupsJoined(attendees, last'.user)
        /\ \A gid \in GroupIds : CountIn(attendees', gid) = CountIn(attendees, gid) ]_vars

\* C28: a dashboard 'join-dinner' for the place id of a card in the loader's
\* response, issued once that response exists, does not fail: the Restaurant
\* row of the id is written by then.
C28_ReturnedCardCanBeJoined ==
  [][ (last.op = "restaurants" /\ last'.op = "join-dinner"
         /\ \E k \in DOMAIN last.cards : last.cards[k].id = last'.restaurantId) =>
        /\ \E x \in restaurants : x.id = last'.restaurantId
        /\ last'.result = "true" ]_vars

\* C29: while a join or leave of the dashboard's user is in flight, every card
\* of the optimistic list carries the attendee count the loader returns for
\* it once the action has committed.
C29_OptimisticCountsMatchCommitted ==
  [][ \A resp \in BothCards :
        (last.op = "restaurants" /\ last.response = resp
           /\ last'.op \in {"join-dinner", "leave-dinner"}
           /\ last'.user = last.user /\ last'.result = "true") =>
          \A optimistic \in {getOptimisticRestaurants(last.cards, last'.op,
                                                      last'.restaurantId)} :
            \A committed \in (LoaderCardLists(resp, NoValue))' :
              \A k \in DOMAIN optimistic :
                optimistic[k].attendeeCount = committed[k].attendeeCount ]_vars

\* C30: searches with different parameters have different cache keys, so a
\* search answered from the cache right after a search with other parameters
\* stored its result is not answered from that entry.
C30_CacheKeyInjective ==
  [][ (last.op = "r-search" /\ last.fetched /\ last.result = "true"
         /\ last'.op = "r-search" /\ last'.query # last.query
         /\ ~last'.fetched) =>
        /\ searchKey(last'.query) # searchKey(last.query)
        /\ cache[searchKey(last'.query)] # CacheEntry(last.time, last.restaurants) ]_vars

====
